---- MODULE Spec2Model ----
(***************************************************************************)
(* Model of api/index.py: the in-memory identifier store (video_counter,   *)
(* video_storage), the /shorten handler that allocates ids, the            *)
(* /<filename>/download/<int:video_id> player resolver and the             *)
(* /cdn/<video_id> streaming proxy.                                        *)
(*                                                                         *)
(* Python strings are sequences of one-character strings, so that find,    *)
(* slicing, percent-decoding and URL splitting are computed as the code    *)
(* computes them.  An optional value (None or a string) is a record        *)
(* [some, val].  A dictionary key carries its Python type, because         *)
(* 1 == "1" is False in Python.                                            *)
(***************************************************************************)
EXTENDS Integers, Sequences, FiniteSets, TLC

\* Number of successful allocations the model follows: /shorten is enabled
\* while fewer than MaxAlloc ids have been returned.
MaxAlloc == 3

\* Number of request-handling threads in the interleaved specification.
NumThreads == 2

----------------------------------------------------------------------------
\* Python values

None == [some |-> FALSE, val |-> <<>>]

Some(s) == [some |-> TRUE, val |-> s]

\* Python truthiness of None / str: `if not long_url`, `a or b`.
Truthy(x) == x.some /\ x.val # <<>>

\* Python `a or b`.
PyOr(a, b) == IF Truthy(a) THEN a ELSE b

\* An int used as a dict key (video_counter values; Flask's <int:...> converter).
PyInt(n) == [t |-> "int", n |-> n, s |-> <<>>]

\* A str used as a dict key (Flask's default path converter).
PyStr(s) == [t |-> "str", n |-> 0, s |-> s]

\* The dict literal {"url": ..., "filename": ...} of store_video_url.
PyDict(url, filename) == [t |-> "dict", url |-> url, filename |-> filename]

----------------------------------------------------------------------------
\* String helpers (str.find, slicing, split)

SetMin(S) == CHOOSE x \in S : \A y \in S : x <= y

\* str.find(pat): 1-based index of the first occurrence, 0 when absent.
Find(s, pat) ==
  LET hits == {i \in 1..(Len(s) - Len(pat) + 1) : SubSeq(s, i, i + Len(pat) - 1) = pat}
  IN IF hits = {} THEN 0 ELSE SetMin(hits)

\* s[i:] with a 1-based i.
From(s, i) == SubSeq(s, i, Len(s))

\* str.split(c): the pieces between the occurrences of the character c.
RECURSIVE Split(_, _)
Split(s, c) ==
  LET i == Find(s, <<c>>)
  IN IF i = 0 THEN <<s>>
     ELSE <<SubSeq(s, 1, i - 1)>> \o Split(From(s, i + 1), c)

\* str.split(c, 1): at most one cut.
Split1(s, c) ==
  LET i == Find(s, <<c>>)
  IN IF i = 0 THEN <<s>> ELSE <<SubSeq(s, 1, i - 1), From(s, i + 1)>>

HexDigits == {"0", "1", "2", "3", "4", "5", "6", "7", "8", "9",
              "A", "B", "C", "D", "E", "F", "a", "b", "c", "d", "e", "f"}

\* The percent escapes of the characters the model's requests use; any other
\* escape decodes to a character outside that alphabet, written "?".
HexDecode(a, b) ==
  CASE a = "2" /\ b \in {"F", "f"} -> "/"
    [] a = "3" /\ b \in {"A", "a"} -> ":"
    [] a = "2" /\ b = "6" -> "&"
    [] a = "3" /\ b \in {"D", "d"} -> "="
    [] a = "2" /\ b = "5" -> "%"
    [] a = "2" /\ b = "0" -> " "
    [] OTHER -> "?"

\* urllib.parse.unquote: %XX becomes the character, anything else is kept.
RECURSIVE unquote(_)
unquote(s) ==
  IF s = <<>> THEN <<>>
  ELSE IF s[1] = "%" /\ Len(s) >= 3 /\ s[2] \in HexDigits /\ s[3] \in HexDigits
       THEN <<HexDecode(s[2], s[3])>> \o unquote(From(s, 4))
       ELSE <<s[1]>> \o unquote(Tail(s))

\* The '+' to ' ' replacement that query-string parsing applies before unquote.
PlusToSpace(s) == [i \in 1..Len(s) |-> IF s[i] = "+" THEN " " ELSE s[i]]

----------------------------------------------------------------------------
\* urllib.parse.urlsplit, as far as validate_url reads its result

UpperCase == <<"A", "B", "C", "D", "E", "F", "G", "H", "I", "J", "K", "L", "M",
               "N", "O", "P", "Q", "R", "S", "T", "U", "V", "W", "X", "Y", "Z">>

LowerCase == <<"a", "b", "c", "d", "e", "f", "g", "h", "i", "j", "k", "l", "m",
               "n", "o", "p", "q", "r", "s", "t", "u", "v", "w", "x", "y", "z">>

Range(f) == {f[i] : i \in DOMAIN f}

Letters == Range(UpperCase) \cup Range(LowerCase)

\* urllib's scheme_chars: letters, digits and "+-.".
SchemeChars == Letters \cup {"0", "1", "2", "3", "4", "5", "6", "7", "8", "9", "+", "-", "."}

\* str.lower() of one character.
LowerChar(c) ==
  IF c \in Range(UpperCase)
  THEN LowerCase[CHOOSE i \in DOMAIN UpperCase : UpperCase[i] = c]
  ELSE c

Lower(s) == [i \in 1..Len(s) |-> LowerChar(s[i])]

\* str.lstrip() of the leading blanks urlsplit removes.
RECURSIVE LStrip(_)
LStrip(s) == IF s # <<>> /\ s[1] = " " THEN LStrip(Tail(s)) ELSE s

\* urlsplit's scheme rule: the text before the first ':' is the scheme when the
\* ':' is not the first character, the url starts with a letter and every
\* character before the ':' is a scheme character.
HasScheme(u) ==
  LET i == Find(u, <<":">>)
  IN /\ i > 1
     /\ u[1] \in Letters
     /\ \A k \in 1..(i - 1) : u[k] \in SchemeChars

Scheme(u) == IF HasScheme(u) THEN Lower(SubSeq(u, 1, Find(u, <<":">>) - 1)) ELSE <<>>

AfterScheme(u) == IF HasScheme(u) THEN From(u, Find(u, <<":">>) + 1) ELSE u

\* urlsplit's _splitnetloc: after a leading "//", up to the first of "/?#".
Netloc(u) ==
  LET r == AfterScheme(u)
  IN IF Len(r) >= 2 /\ SubSeq(r, 1, 2) = <<"/", "/">>
     THEN LET rest == From(r, 3)
              ends == {i \in 1..Len(rest) : rest[i] \in {"/", "?", "#"}}
          IN IF ends = {} THEN rest ELSE SubSeq(rest, 1, SetMin(ends) - 1)
     ELSE <<>>

\* urlsplit raises ValueError("Invalid IPv6 URL") on an unbalanced bracket.
UrlsplitRaises(u) ==
  LET n == Netloc(u)
  IN (Find(n, <<"[">>) # 0) # (Find(n, <<"]">>) # 0)

\* validate_url: True for an http/https url with a non-empty netloc; any
\* exception of the parse is False.
validate_url(url) ==
  LET decoded_url == LStrip(unquote(url))
  IN IF UrlsplitRaises(decoded_url) THEN FALSE
     ELSE IF Scheme(decoded_url) \notin {<<"h", "t", "t", "p">>, <<"h", "t", "t", "p", "s">>}
          THEN FALSE
          ELSE Netloc(decoded_url) # <<>>

----------------------------------------------------------------------------
\* Request parsing

\* request.args.get(key): the query string is cut at '&', each piece at its
\* first '=', name and value are plus- and percent-decoded; the first value of
\* the name wins; None when there is none.
ArgValue(piece) ==
  LET nv == Split1(piece, "=")
  IN IF Len(nv) = 2 THEN unquote(PlusToSpace(nv[2])) ELSE <<>>

ArgName(piece) == unquote(PlusToSpace(Split1(piece, "=")[1]))

args_get(query_string, key) ==
  LET pieces == Split(query_string, "&")
      hits == {i \in 1..Len(pieces) : pieces[i] # <<>> /\ ArgName(pieces[i]) = key}
  IN IF hits = {} THEN None ELSE Some(ArgValue(pieces[SetMin(hits)]))

KeyUrl == <<"u", "r", "l">>

KeyName == <<"n", "a", "m", "e">>

\* extract_full_url: everything after the first "url=" of the raw query
\* string, percent-decoded; None when the marker is absent.
extract_full_url(query_string) ==
  LET marker == <<"u", "r", "l", "=">>
      i == Find(query_string, marker)
  IN IF i # 0 THEN Some(unquote(From(query_string, i + 4))) ELSE None

\* shorten, lines 86-94: the url and the name the handler works with.
ShortenInputs(req) ==
  LET posted == req.method = "POST"
      body_url == IF posted THEN req.json_url ELSE None
      body_name == IF posted THEN req.json_name ELSE None
  IN IF ~Truthy(body_url)
     THEN [long_url |-> PyOr(extract_full_url(req.query), args_get(req.query, KeyUrl)),
           filename |-> args_get(req.query, KeyName)]
     ELSE [long_url |-> body_url, filename |-> body_name]

DefaultFilename == <<"v", "i", "d", "e", "o", ".", "m", "p", "4">>

\* `filename or "video.mp4"`
FilenameOrDefault(filename) == PyOr(filename, Some(DefaultFilename)).val

----------------------------------------------------------------------------
\* State

VARIABLES
  video_counter,   \* the global counter of line 39
  video_storage,   \* the global dict of line 40: key -> {"url", "filename"}
  resp,            \* the response of the last completed request, with its request
  returned,        \* history: what each successful /shorten answered, in order
  pc,              \* per thread: where it is inside shorten/store_video_url
  local            \* per thread: the locals of shorten/store_video_url

vars == <<video_counter, video_storage, resp, returned, pc, local>>

Threads == 1..NumThreads

\* A stand-in upstream server: whether the connection is established, the
\* status it answers, the chunks iter_content yields, and the chunk whose
\* read raises (0: none).
NoUpstream == [connect |-> FALSE, status |-> 0, chunks |-> <<>>, failAt |-> 0]

NoReq == [method |-> "", query |-> <<>>, json_url |-> None, json_name |-> None,
          path_filename |-> <<>>, path_id |-> <<>>, range |-> None, up |-> NoUpstream]

NoResp == [kind |-> "none", req |-> NoReq, status |-> 0, success |-> FALSE,
           error |-> "", video_id |-> 0, filename |-> <<>>, short_url |-> <<>>,
           player_url |-> <<>>, cdn_url |-> <<>>, video_url |-> <<>>,
           outbound |-> <<>>, body |-> <<>>, broken |-> FALSE]

NoLocal == [req |-> NoReq, long_url |-> <<>>, filename |-> None, vid |-> 0, tmp |-> 0]

----------------------------------------------------------------------------
\* Identifier store

\* A counter that is never advanced.
NextCounter_stuck(c) == c

\* `video_counter += 1`
NextCounter(c) == c + 1

\* `video_storage[vid] = {"url": url, "filename": filename or "video.mp4"}`
SetItem(storage, key, value) ==
  [k \in DOMAIN storage \cup {key} |-> IF k = key THEN value ELSE storage[k]]

\* store_video_url run without interruption: the id returned, the new dict
\* and the new counter.
store_video_url(counter, storage, url, filename) ==
  LET vid == counter
  IN [vid |-> vid,
      storage |-> SetItem(storage, PyInt(vid), PyDict(url, FilenameOrDefault(filename))),
      counter |-> NextCounter(counter)]

\* The membership test the wrong way round.
NotInStorage_inverted(key, storage) == key \in DOMAIN storage

\* `video_id not in video_storage`
NotInStorage(key, storage) == key \notin DOMAIN storage

\* `video_storage[video_id]` for a key the dict does not hold raises KeyError,
\* which no handler catches: Flask answers 500.
KeyError(req, kind) ==
  [NoResp EXCEPT !.kind = kind, !.req = req, !.status = 500, !.error = "KeyError"]

----------------------------------------------------------------------------
\* /shorten

\* The JSON answers of shorten (lines 97, 99, 108-115).
ShortenError(req, msg) ==
  [NoResp EXCEPT !.kind = "shorten", !.req = req, !.status = 400, !.error = msg]

ShortenOk(req, vid, filename) ==
  [NoResp EXCEPT !.kind = "shorten", !.req = req, !.status = 200, !.success = TRUE,
                 !.video_id = vid,
                 !.short_url = <<FilenameOrDefault(filename), "download", vid>>,
                 !.player_url = <<"player", vid, FilenameOrDefault(filename)>>,
                 !.cdn_url = <<"cdn", vid>>,
                 !.filename = FilenameOrDefault(filename)]

\* What a successful /shorten told its caller, kept for the properties.
Issued(vid, long_url) == [id |-> vid, url |-> long_url]

\* The whole handler, run without interruption.
Shorten(req) ==
  LET in == ShortenInputs(req)
  IN /\ Len(returned) < MaxAlloc
     /\ IF ~Truthy(in.long_url)
        THEN /\ resp' = ShortenError(req, "No URL provided.")
             /\ UNCHANGED <<video_counter, video_storage, returned>>
        ELSE IF ~validate_url(in.long_url.val)
        THEN /\ resp' = ShortenError(req, "Invalid URL.")
             /\ UNCHANGED <<video_counter, video_storage, returned>>
        ELSE LET r == store_video_url(video_counter, video_storage,
                                      in.long_url.val, in.filename)
             IN /\ video_storage' = r.storage
                /\ video_counter' = r.counter
                /\ resp' = ShortenOk(req, r.vid, in.filename)
                /\ returned' = Append(returned, Issued(r.vid, in.long_url.val))
     /\ UNCHANGED <<pc, local>>

----------------------------------------------------------------------------
\* /<filename>/download/<int:video_id>

DigitVal(c) ==
  CASE c = "0" -> 0 [] c = "1" -> 1 [] c = "2" -> 2 [] c = "3" -> 3 [] c = "4" -> 4
    [] c = "5" -> 5 [] c = "6" -> 6 [] c = "7" -> 7 [] c = "8" -> 8 [] c = "9" -> 9

\* int() of a string of decimal digits.
RECURSIVE ToInt(_)
ToInt(s) == IF s = <<>> THEN 0 ELSE 10 * ToInt(SubSeq(s, 1, Len(s) - 1)) + DigitVal(s[Len(s)])

\* The route declared without the int converter: the handler gets a str.
IntConverter_str(segment) == PyStr(segment)

\* Flask's <int:video_id> converter of line 122: the handler gets an int.
IntConverter(segment) == PyInt(ToInt(segment))

SentinelUrl == <<"https://effective-zebra-wqr496wpv6p3g6vx.github.dev/">>

Expired == <<"E", "x", "p", "i", "r", "e", "d">>

\* render_template('player.html', video_url=..., original_url=..., filename=...)
Page(req, video_url, filename) ==
  [NoResp EXCEPT !.kind = "page", !.req = req, !.status = 200,
                 !.video_url = video_url, !.filename = filename]

download_or_play(req, storage) ==
  LET video_id == IntConverter(req.path_id)
  IN IF NotInStorage(video_id, storage)
     THEN Page(req, SentinelUrl, Expired)
     ELSE IF video_id \notin DOMAIN storage
     THEN KeyError(req, "page")
     ELSE LET video_info == storage[video_id]
          IN Page(req, video_info.url,
                  PyOr(Some(req.path_filename), Some(video_info.filename)).val)

Download(req) ==
  /\ resp' = download_or_play(req, video_storage)
  /\ UNCHANGED <<video_counter, video_storage, returned, pc, local>>

----------------------------------------------------------------------------
\* /cdn/<video_id>

\* Flask's default (string) converter of line 150: the handler gets a str.
StrConverter(segment) == PyStr(segment)

\* The outbound request of line 168: its target and the Range header it
\* carries (the other four headers are fixed).
Outbound(url, range_header) == [url |-> url, range |-> range_header]

\* generate(): the non-empty chunks read before the read that raises.
Relayed(up) ==
  LET n == IF up.failAt = 0 THEN Len(up.chunks) ELSE up.failAt - 1
      NonEmpty(chunk) == chunk # ""
  IN SelectSeq(SubSeq(up.chunks, 1, n), NonEmpty)

StreamJson(req, status, msg, outbound) ==
  [NoResp EXCEPT !.kind = "stream", !.req = req, !.status = status, !.error = msg,
                 !.outbound = outbound]

\* requests.get(target, headers=..., stream=True, timeout=30) and the relay.
\* A target that is not an http(s) url string has no connection adapter:
\* requests raises InvalidSchema, a RequestException, before any request is
\* sent.  A failed connection raises inside the try block (500); a failed
\* read raises inside generate(), after the status has been handed to the
\* server, and leaves a shortened body.
requests_get(req, target) ==
  IF target.t # "str"
  THEN StreamJson(req, 500, "Failed to stream video", <<>>)
  ELSE IF ~req.up.connect
  THEN StreamJson(req, 500, "Failed to stream video",
                  <<Outbound(target.url, IF Truthy(req.range) THEN req.range ELSE None)>>)
  ELSE [NoResp EXCEPT !.kind = "stream", !.req = req, !.status = req.up.status,
                      !.outbound = <<Outbound(target.url,
                                              IF Truthy(req.range) THEN req.range ELSE None)>>,
                      !.body = Relayed(req.up),
                      !.broken = req.up.failAt # 0]

stream_video(req, storage) ==
  LET video_id == StrConverter(req.path_id)
  IN IF NotInStorage(video_id, storage)
     THEN StreamJson(req, 404, "Video not found", <<>>)
     ELSE IF video_id \notin DOMAIN storage
     THEN KeyError(req, "stream")
     ELSE LET original_url == storage[video_id]
          IN requests_get(req, original_url)

Stream(req) ==
  /\ resp' = stream_video(req, video_storage)
  /\ UNCHANGED <<video_counter, video_storage, returned, pc, local>>

----------------------------------------------------------------------------
\* The requests the model sends

UrlA == <<"h", "t", "t", "p", ":", "/", "/", "a", "/", "v">>

UrlB == <<"H", "T", "T", "P", "S", ":", "/", "/", "b">>

UrlFtp == <<"f", "t", "p", ":", "/", "/", "b">>

UrlNoHost == <<"h", "t", "t", "p", ":", "/", "/">>

UrlNoScheme == <<"/", "/", "a", "/", "v">>

UrlAEncoded == <<"h", "t", "t", "p", "%", "3", "A", "%", "2", "F", "%", "2", "F", "a", "%", "2", "F", "v">>

NameN == <<"n">>

QUrl == <<"u", "r", "l", "=">>

QName == <<"n", "a", "m", "e", "=">>

Amp == <<"&">>

\* Raw query strings of /shorten requests.
Queries ==
  { <<>>,                                     \* no query string
    QUrl \o UrlA,                             \* url=http://a/v
    QUrl \o UrlB,                             \* url=HTTPS://b
    QUrl \o UrlAEncoded,                      \* url=http%3A%2F%2Fa%2Fv
    QName \o NameN \o Amp \o QUrl \o UrlA,    \* name=n&url=http://a/v
    QUrl \o UrlA \o Amp \o QName \o NameN,    \* url=http://a/v&name=n
    QUrl \o UrlFtp,                           \* url=ftp://b
    QUrl \o UrlNoScheme,                      \* url=//a/v
    QUrl \o UrlNoHost,                        \* url=http://
    QUrl \o UrlNoHost \o Amp \o QName \o NameN, \* url=http://&name=n
    QName \o NameN,                           \* name=n
    QUrl }                                    \* url=

GetRequests == {[NoReq EXCEPT !.method = "GET", !.query = q] : q \in Queries}

\* POST requests: a JSON body with or without url and name, or no usable body.
Post(q, u, n) == [NoReq EXCEPT !.method = "POST", !.query = q, !.json_url = u, !.json_name = n]

PostRequests ==
  { Post(<<>>, Some(UrlA), Some(NameN)),        \* {"url": "http://a/v", "name": "n"}
    Post(<<>>, Some(UrlA), None),               \* {"url": "http://a/v"}
    Post(<<>>, Some(UrlFtp), None),             \* {"url": "ftp://b"}
    Post(QUrl \o UrlB, None, None),             \* no body, ?url=HTTPS://b
    Post(QUrl \o UrlB, Some(<<>>), Some(NameN)),\* {"url": "", "name": "n"}, ?url=HTTPS://b
    Post(<<>>, None, None) }                    \* no body, no query

ShortenRequests == GetRequests \cup PostRequests

\* Decimal path segments 1 .. MaxAlloc + 1: ids that are allocated at some
\* point and one that never is.
IdSegments == {<<"0">>, <<"1">>, <<"2">>, <<"3">>, <<"4">>, <<"5">>, <<"6">>, <<"7">>, <<"8">>, <<"9">>}

PathIds == {seg \in IdSegments : ToInt(seg) \in 1..(MaxAlloc + 1)}

DownloadRequests ==
  {[NoReq EXCEPT !.method = "GET", !.path_filename = f, !.path_id = i] :
     f \in {NameN, DefaultFilename}, i \in PathIds}

RangeValue == <<"bytes=0-99">>

Upstreams ==
  { [connect |-> TRUE, status |-> 206, chunks |-> <<"ab", "cd">>, failAt |-> 0],
    [connect |-> TRUE, status |-> 200, chunks |-> <<"ab", "", "cd">>, failAt |-> 0],
    [connect |-> TRUE, status |-> 200, chunks |-> <<"ab", "cd">>, failAt |-> 1],
    [connect |-> FALSE, status |-> 0, chunks |-> <<>>, failAt |-> 0] }

StreamRequests ==
  {[NoReq EXCEPT !.method = "GET", !.path_id = i, !.range = r, !.up = u] :
     i \in PathIds, r \in {None, Some(RangeValue)}, u \in Upstreams}

----------------------------------------------------------------------------
\* Requests handled one at a time

Init ==
  /\ video_counter = 1
  /\ video_storage = << >>
  /\ resp = NoResp
  /\ returned = << >>
  /\ pc = [t \in Threads |-> "idle"]
  /\ local = [t \in Threads |-> NoLocal]

DoShorten == \E req \in ShortenRequests : Shorten(req)

DoDownload == \E req \in DownloadRequests : Download(req)

DoStream == \E req \in StreamRequests : Stream(req)

Next == DoShorten \/ DoDownload \/ DoStream

Spec == Init /\ [][Next]_vars

----------------------------------------------------------------------------
\* /shorten handled by several threads at once.  The handler's own work
\* (parsing, validation, building the answer) is local to its thread; the
\* steps of store_video_url that touch the globals are taken one at a time,
\* and another thread may run between any two of them.

Active == {t \in Threads : pc[t] # "idle"}

\* shorten, lines 86-99: parse and validate; a rejected request is answered
\* at once, an accepted one enters store_video_url.
Begin(t, req) ==
  LET in == ShortenInputs(req)
  IN /\ pc[t] = "idle"
     /\ Len(returned) + Cardinality(Active) < MaxAlloc
     /\ IF ~Truthy(in.long_url)
        THEN /\ resp' = ShortenError(req, "No URL provided.")
             /\ UNCHANGED <<pc, local>>
        ELSE IF ~validate_url(in.long_url.val)
        THEN /\ resp' = ShortenError(req, "Invalid URL.")
             /\ UNCHANGED <<pc, local>>
        ELSE /\ pc' = [pc EXCEPT ![t] = "read"]
             /\ local' = [local EXCEPT ![t] = [NoLocal EXCEPT !.req = req,
                                                              !.long_url = in.long_url.val,
                                                              !.filename = in.filename]]
             /\ UNCHANGED resp
     /\ UNCHANGED <<video_counter, video_storage, returned>>

\* line 44: vid = video_counter
ReadCounter(t) ==
  /\ pc[t] = "read"
  /\ local' = [local EXCEPT ![t].vid = video_counter]
  /\ pc' = [pc EXCEPT ![t] = "write"]
  /\ UNCHANGED <<video_counter, video_storage, resp, returned>>

\* line 45: video_storage[vid] = {...}
WriteEntry(t) ==
  /\ pc[t] = "write"
  /\ video_storage' = SetItem(video_storage, PyInt(local[t].vid),
                              PyDict(local[t].long_url, FilenameOrDefault(local[t].filename)))
  /\ pc' = [pc EXCEPT ![t] = "load"]
  /\ UNCHANGED <<video_counter, resp, returned, local>>

\* line 46, first half: the load of video_counter
LoadCounter(t) ==
  /\ pc[t] = "load"
  /\ local' = [local EXCEPT ![t].tmp = video_counter]
  /\ pc' = [pc EXCEPT ![t] = "store"]
  /\ UNCHANGED <<video_counter, video_storage, resp, returned>>

\* line 46, second half: the store of the incremented value; then return vid
\* and the rest of shorten (lines 47, 102-115).
StoreCounter(t) ==
  /\ pc[t] = "store"
  /\ video_counter' = NextCounter(local[t].tmp)
  /\ resp' = ShortenOk(local[t].req, local[t].vid, local[t].filename)
  /\ returned' = Append(returned, Issued(local[t].vid, local[t].long_url))
  /\ pc' = [pc EXCEPT ![t] = "idle"]
  /\ local' = [local EXCEPT ![t] = NoLocal]
  /\ UNCHANGED video_storage

ConcRequests ==
  { [NoReq EXCEPT !.method = "GET", !.query = QUrl \o UrlA],
    [NoReq EXCEPT !.method = "GET", !.query = QUrl \o UrlFtp],
    Post(<<>>, Some(UrlB), Some(NameN)) }

DoBegin == \E t \in Threads, req \in ConcRequests : Begin(t, req)

DoReadCounter == \E t \in Threads : ReadCounter(t)

DoWriteEntry == \E t \in Threads : WriteEntry(t)

DoLoadCounter == \E t \in Threads : LoadCounter(t)

DoStoreCounter == \E t \in Threads : StoreCounter(t)

NextConc ==
  \/ DoBegin
  \/ DoReadCounter
  \/ DoWriteEntry
  \/ DoLoadCounter
  \/ DoStoreCounter
  \/ DoDownload

SpecConc == Init /\ [][NextConc]_vars

----------------------------------------------------------------------------
\* Properties

ReturnedIds == {returned[i].id : i \in DOMAIN returned}

\* The url passed to the allocation that returned id.
IssuedUrl(id) == returned[CHOOSE i \in DOMAIN returned : returned[i].id = id].url

\* The id a request path names.
PathId(req) == ToInt(req.path_id)

\* The url and the name a /shorten request supplies, read field by field: the
\* JSON body of a POST that carries a url, the query parameters otherwise.
UsesBody(req) == req.method = "POST" /\ Truthy(req.json_url)

SuppliedUrl(req) == IF UsesBody(req) THEN req.json_url ELSE args_get(req.query, KeyUrl)

SuppliedName(req) == IF UsesBody(req) THEN req.json_name ELSE args_get(req.query, KeyName)

\* The upstream's body as the caller should see it.
UpstreamBody(up) == SelectSeq(up.chunks, LAMBDA chunk : chunk # "")

\* C1: GET /cdn/<id> for an id a successful /shorten returned is not answered
\* 404: one outbound request goes to the url stored for the id, and when the
\* upstream answers, its status and body are relayed unchanged.
C1_StreamRelaysUpstream ==
  (resp.kind = "stream" /\ PathId(resp.req) \in ReturnedIds) =>
    /\ resp.status # 404
    /\ Len(resp.outbound) = 1
    /\ resp.outbound[1].url = IssuedUrl(PathId(resp.req))
    /\ (resp.req.up.connect /\ resp.req.up.failAt = 0) =>
         /\ resp.status = resp.req.up.status
         /\ resp.body = UpstreamBody(resp.req.up)

\* C2: from a fresh store, the ids returned by successful allocations are
\* 1, 2, ..., N in call order (so each is the previous plus 1 and none is
\* returned twice), and the id in each answer is the one allocated.
C2_IdsAreOneToN ==
  /\ \A i \in DOMAIN returned : returned[i].id = i
  /\ (resp.kind = "shorten" /\ resp.success) => resp.video_id = Len(returned)

C2_ThreeAllocated ==
  /\ Len(returned) >= 3
  /\ resp.kind = "shorten" /\ resp.success /\ resp.video_id = 3

\* C3: also when the steps of concurrent allocations interleave, every id
\* returned to a caller maps to a StoredVideo holding the url that caller
\* supplied, and no id is returned to two callers.
C3_ReturnedIdsKeepCallerUrl ==
  /\ \A i \in DOMAIN returned :
       /\ PyInt(returned[i].id) \in DOMAIN video_storage
       /\ video_storage[PyInt(returned[i].id)].url = returned[i].url
  /\ \A i, j \in DOMAIN returned : i # j => returned[i].id # returned[j].id

\* C4: resolving an id that an allocation returned, however many allocations
\* followed, yields a page carrying the url that was allocated; resolving an
\* integer id never allocated yields the sentinel url and the label "Expired".
C4_ResolveYieldsAllocatedUrl ==
  resp.kind = "page" =>
    IF PathId(resp.req) \in ReturnedIds
    THEN resp.video_url = IssuedUrl(PathId(resp.req))
    ELSE resp.video_url = SentinelUrl /\ resp.filename = Expired

C4_ResolvedAfterFurtherAllocations ==
  /\ resp.kind = "page"
  /\ PathId(resp.req) = 1
  /\ Len(returned) >= 3
  /\ resp.video_url = returned[1].url
  /\ returned[2].url # returned[1].url

\* C5: GET /cdn/<id> for an id that is not in the store is answered 404 and
\* makes no outbound request, whatever the store holds.
C5_UnknownIdIs404WithoutOutbound ==
  (resp.kind = "stream" /\ PyInt(PathId(resp.req)) \notin DOMAIN video_storage) =>
    /\ resp.status = 404
    /\ resp.outbound = <<>>

C5_UnknownIdStreamedFromFilledStore ==
  /\ resp.kind = "stream"
  /\ PyInt(PathId(resp.req)) \notin DOMAIN video_storage
  /\ Len(returned) >= 2
  /\ Truthy(resp.req.range)
  /\ resp.req.up.connect
  /\ resp.status = 404

\* C6: a /shorten request that supplies no url, or whose url fails
\* validate_url, is answered 400 with success false and changes neither the
\* dict nor the counter.
C6_RejectedShortenLeavesStore ==
  [][(resp'.kind = "shorten"
        /\ (~Truthy(SuppliedUrl(resp'.req)) \/ ~validate_url(SuppliedUrl(resp'.req).val)))
      => /\ resp'.status = 400
         /\ ~resp'.success
         /\ video_storage' = video_storage
         /\ video_counter' = video_counter]_vars

\* C7: GET /cdn/<id> for a stored id whose upstream fetch fails before the
\* first body byte is relayed (no connection, or the first read raises) is
\* answered with the 500 error and no body.
C7_EarlyUpstreamFailureIs500 ==
  (resp.kind = "stream" /\ PathId(resp.req) \in ReturnedIds
     /\ (~resp.req.up.connect \/ resp.req.up.failAt = 1)) =>
    /\ resp.status = 500
    /\ resp.body = <<>>

\* C9: GET /cdn/<id> for an allocated id makes an outbound request whose
\* Range header is the inbound one: the same value when present, none when
\* absent.
C9_RangeForwardedVerbatim ==
  (resp.kind = "stream" /\ PathId(resp.req) \in ReturnedIds) =>
    /\ Len(resp.outbound) >= 1
    /\ resp.outbound[1].range = resp.req.range

\* C10: a successful /shorten that supplies url=U and name=N, as query
\* parameters in either order or as JSON fields, stores url U and filename N,
\* or "video.mp4" when no name is supplied.
C10_StoredAsSupplied ==
  (resp.kind = "shorten" /\ resp.success
     /\ Truthy(SuppliedUrl(resp.req)) /\ validate_url(SuppliedUrl(resp.req).val)) =>
    LET stored == video_storage[PyInt(resp.video_id)]
    IN /\ stored.url = SuppliedUrl(resp.req).val
       /\ stored.filename = (IF Truthy(SuppliedName(resp.req))
                             THEN SuppliedName(resp.req).val
                             ELSE DefaultFilename)

====
